---- MODULE Spec2Model ----
(***************************************************************************)
(* Model of .travis/readme.py: the script reads README.md, finds every     *)
(* fenced rust block with re.findall and writes block i, prefixed by       *)
(* #![deny(warnings)], to examples/readme_<i>.rs.                          *)
(*                                                                         *)
(* Text is a sequence of one-character strings.  The file system is a map  *)
(* from path to [exists, data].  A run of the script is an operating       *)
(* system process p whose position pc[p] is the source line it is about to *)
(* execute.                                                                *)
(***************************************************************************)
EXTENDS Integers, Sequences, FiniteSets, TLC

\* ------------------------------------------------------------------ bounds
\* Longest document, in segments (see Segments below), when runs follow one
\* another, and when they overlap.
MaxSegs == 2
MaxConcSegs == 1

\* The runs of the script: a first one and a second one.
Procs == {1, 2}

\* Output slots the model tracks: one more than a document can fill, so that
\* a file beyond the last match exists.
MaxOut == MaxSegs + 1

\* ------------------------------------------------------------ text helpers
\* The backtick character.  (A backquote inside a TLA+ string starts a quotation,
\* so the character is written by name.)
BT == "BACKTICK"
NL == "\n"

Fence == <<BT, BT, BT>>
Tag == <<"r", "u", "s", "t">>

\* A pattern that opens with the fence alone, whatever the tag.
OpenFenceNoTag == Fence

\* What the pattern of line 8 opens with: the fence, then the tag.
OpenFence == Fence \o Tag

Preamble ==
  <<"#", "!", "[", "d", "e", "n", "y", "(", "w", "a", "r", "n", "i", "n", "g", "s", ")", "]">>

HasTick(s) == \E j \in 1..Len(s) : s[j] = BT

IsPrefix(a, b) == Len(a) <= Len(b) /\ SubSeq(b, 1, Len(a)) = a

\* s[p .. p+Len(lit)-1] = lit
LitAt(s, p, lit) ==
  /\ p >= 1
  /\ p + Len(lit) - 1 <= Len(s)
  /\ \A j \in 1..Len(lit) : s[p + j - 1] = lit[j]

SetMax(S) == CHOOSE x \in S : \A y \in S : y <= x

\* ----------------------------------------------------- the regular expression
\* Variants of the pattern, as a slip in it would make them: with the end of
\* the text accepted as a closing fence, and with a group that takes any
\* character.
GroupLensOrEnd(s, p) ==
  IF ~LitAt(s, p, Fence \o Tag) THEN {}
  ELSE { n \in 0..(Len(s) - p) :
           /\ \A j \in 1..n : p + Len(Fence \o Tag) + j - 1 <= Len(s)
                              /\ s[p + Len(Fence \o Tag) + j - 1] # BT
           /\ \/ LitAt(s, p + Len(Fence \o Tag) + n, Fence)
              \/ p + Len(Fence \o Tag) + n = Len(s) + 1 }

GroupLensAnyChar(s, p) ==
  IF ~LitAt(s, p, Fence \o Tag) THEN {}
  ELSE { n \in 0..(Len(s) - p) : LitAt(s, p + Len(Fence \o Tag) + n, Fence) }

\* The pattern of line 8 (three backticks, rust, a group of any characters but
\* backticks, three backticks) tried at position p: the lengths n the group can
\* take so that the whole pattern matches at p.
GroupLens(s, p) ==
  IF ~LitAt(s, p, OpenFence) THEN {}
  ELSE { n \in 0..(Len(s) - p) :
           /\ \A j \in 1..n : p + Len(OpenFence) + j - 1 <= Len(s)
                              /\ s[p + Len(OpenFence) + j - 1] # BT
           /\ LitAt(s, p + Len(OpenFence) + n, Fence) }

\* The star of the group is greedy: the longest group wins.
GroupLen(s, p) == SetMax(GroupLens(s, p))

\* A scan that resumes one character beyond the end of a match.
RECURSIVE FindSpansFromSkip(_, _)
FindSpansFromSkip(s, p) ==
  IF p > Len(s) THEN <<>>
  ELSE IF GroupLens(s, p) # {}
       THEN LET n == GroupLen(s, p)
                b == p + Len(OpenFence)
            IN  <<[start |-> p, code |-> SubSeq(s, b, b + n - 1)]>>
                  \o FindSpansFromSkip(s, b + n + Len(Fence) + 1)
       ELSE FindSpansFromSkip(s, p + 1)

\* re.findall scans left to right; after a match it resumes at the end of the match,
\* otherwise one character further.  Each match is [start, code]: where it
\* begins and the text of its group.
RECURSIVE FindSpansFrom(_, _)
FindSpansFrom(s, p) ==
  IF p > Len(s) THEN <<>>
  ELSE IF GroupLens(s, p) # {}
       THEN LET n == GroupLen(s, p)
                b == p + Len(OpenFence)
            IN  <<[start |-> p, code |-> SubSeq(s, b, b + n - 1)]>>
                  \o FindSpansFrom(s, b + n + Len(Fence))
       ELSE FindSpansFrom(s, p + 1)

FindSpans(s) == FindSpansFrom(s, 1)

\* With one group in the pattern, re.findall returns the list of group texts.
FindAll(s) == [k \in 1..Len(FindSpans(s)) |-> FindSpans(s)[k].code]

\* ------------------------------------------------------------- documents
\* A document is a sequence of segments; its text is their concatenation.
\*   text      plain text
\*   rust      FENCE rust BODY FENCE      (the closing fence ends the segment)
\*   untagged  FENCE BODY FENCE newline   (a block without a language tag)
\*   other     FENCE c BODY FENCE newline (a block with another tag)
\*   open      FENCE rust BODY            (a tagged fence that is never closed)
Seg(k, b) == [kind |-> k, body |-> b]

Body0 == <<>>
Body1 == <<NL, "x", NL>>
BodyTick == <<NL, "x", BT, "y", NL>>
BodyFence == <<NL, "x", BT, BT, BT, "y", NL>>

Segments ==
  { Seg("text", Tag),
    Seg("rust", Body0), Seg("rust", Body1),
    Seg("rust", BodyTick), Seg("rust", BodyFence),
    Seg("untagged", Body1), Seg("other", Body1),
    Seg("open", <<NL, "y">>) }

SegText(g) ==
  CASE g.kind = "text" -> g.body
    [] g.kind = "rust" -> Fence \o Tag \o g.body \o Fence
    [] g.kind = "untagged" -> Fence \o g.body \o Fence \o <<NL>>
    [] g.kind = "other" -> Fence \o <<"c">> \o g.body \o Fence \o <<NL>>
    [] g.kind = "open" -> Fence \o Tag \o g.body

RECURSIVE Flatten(_)
Flatten(gs) == IF gs = <<>> THEN <<>> ELSE SegText(Head(gs)) \o Flatten(Tail(gs))

\* Position in Flatten(gs) of the first character of segment j.
Offset(gs, j) == Len(Flatten(SubSeq(gs, 1, j - 1))) + 1

DocsUpTo(m) == UNION { [1..n -> Segments] : n \in 0..m }

\* What README.md is replaced by when it is edited between two runs: every
\* block removed, or one block with another body.
EditDocs == { <<>>, <<Seg("rust", Body1)>>, <<Seg("rust", <<"y">>)>> }

\* ------------------------------------------------------------ file system
ReadmePath == "README.md"
OtherPath == "examples/other.rs"

\* The name of line 9: examples/readme_%s.rs with i for %s.
OutPath(i) == "examples/readme_" \o ToString(i) \o ".rs"

OutIdx == 0..(MaxOut - 1)
OutPaths == { OutPath(i) : i \in OutIdx }
Paths == OutPaths \cup {ReadmePath, OtherPath}

NoFile == [exists |-> FALSE, data |-> <<>>]
File(d) == [exists |-> TRUE, data |-> d]

\* Content left in the output directory before the first run; longer than
\* anything a run of the model writes.
OldData == Preamble \o <<NL, "o", "l", "d", ";", "o", "l", "d", NL>>

\* Other modes the open of line 9 could have been given.
ModeUpdate == "r+"
ModeAppend == "a"

\* The mode of the open of line 9.
Mode == "w"

\* open(path, mode): w creates the file or cuts it to length 0; a and r+ keep
\* what it holds.
OpenFile(f) == IF Mode = "w" THEN File(<<>>) ELSE File(f.data)

\* A write that always goes to the end of the file.
WriteFileAppend(f, d) == File(f.data \o d)

\* f.write(d) and the close that flushes it, through a descriptor opened at
\* position 0: d replaces the first Len(d) bytes and what lies beyond them
\* stays.  In mode a the bytes go to the end of the file.
WriteFile(f, d) ==
  IF Mode = "a" THEN File(f.data \o d)
  ELSE File(d \o SubSeq(f.data, Len(d) + 1, Len(f.data)))

\* The text of line 10: #![deny(warnings)]%s with code for %s.
Formatted(code) == Preamble \o code

VARIABLES
  fs,       \* path -> [exists, data]
  segs,     \* the segments README.md is made of (<<>> when it is missing)
  pc,       \* run -> the line it is at: idle, line5, line6, line8, line9, line10, done, failed
  raw,      \* run -> the text it read (line 6)
  matches,  \* run -> the list re.findall returned (line 8)
  idx,      \* run -> i of enumerate (line 8)
  rsegs,    \* run -> the segments of the text it read
  start,    \* run -> the file system when it was launched
  opened,   \* run -> the indices whose file it has opened for writing
  errline,  \* run -> the line whose exception ended it ("" while there is none)
  spans     \* run -> the matches of the scan of line 8, each with its position

vars == <<fs, segs, pc, raw, matches, idx, rsegs, start, opened, errline, spans>>

procVars == <<raw, matches, idx, rsegs, start, opened, spans>>

\* The exit status of a finished run: an uncaught exception ends python with 1.
ExitCode(p) == IF pc[p] = "done" THEN 0 ELSE 1

Finished(p) == pc[p] \in {"done", "failed"}

\* ------------------------------------------------------------------- Init
InitWith(docs) ==
  /\ \E gs \in docs, present \in BOOLEAN, old \in BOOLEAN :
       /\ present \/ gs = <<>>
       /\ segs = gs
       /\ fs = [q \in Paths |->
                  IF q = ReadmePath THEN (IF present THEN File(Flatten(gs)) ELSE NoFile)
                  ELSE IF q = OtherPath THEN File(OldData)
                  ELSE IF old THEN File(OldData) ELSE NoFile]
  /\ pc = [p \in Procs |-> "idle"]
  /\ raw = [p \in Procs |-> <<>>]
  /\ matches = [p \in Procs |-> <<>>]
  /\ idx = [p \in Procs |-> 0]
  /\ rsegs = [p \in Procs |-> <<>>]
  /\ start = [p \in Procs |-> fs]
  /\ opened = [p \in Procs |-> {}]
  /\ errline = [p \in Procs |-> ""]
  /\ spans = [p \in Procs |-> <<>>]

Init == InitWith(DocsUpTo(MaxSegs))

ConcInit == InitWith(DocsUpTo(MaxConcSegs))

\* ---------------------------------------------------------------- actions
\* The script is started, after every earlier run has ended.
Launch(p) ==
  /\ pc[p] = "idle"
  /\ \A q \in Procs : q < p => Finished(q)
  /\ pc' = [pc EXCEPT ![p] = "line5"]
  /\ start' = [start EXCEPT ![p] = fs]
  /\ UNCHANGED <<fs, segs, raw, matches, idx, rsegs, opened, errline, spans>>

\* The script is started while earlier runs may still be going.
LaunchConcurrent(p) ==
  /\ pc[p] = "idle"
  /\ \A q \in Procs : q < p => pc[q] # "idle"
  /\ pc' = [pc EXCEPT ![p] = "line5"]
  /\ start' = [start EXCEPT ![p] = fs]
  /\ UNCHANGED <<fs, segs, raw, matches, idx, rsegs, opened, errline, spans>>

\* line 5: f = open(README.md, r)
OpenReadme(p) ==
  /\ pc[p] = "line5"
  /\ fs[ReadmePath].exists
  /\ pc' = [pc EXCEPT ![p] = "line6"]
  /\ UNCHANGED <<fs, segs, procVars, errline>>

\* line 5 raises IOError: README.md cannot be opened.
OpenReadmeError(p) ==
  /\ pc[p] = "line5"
  /\ ~fs[ReadmePath].exists
  /\ pc' = [pc EXCEPT ![p] = "failed"]
  /\ errline' = [errline EXCEPT ![p] = "line5"]
  /\ UNCHANGED <<fs, segs, procVars>>

\* line 6: raw = f.read()
ReadRaw(p) ==
  /\ pc[p] = "line6"
  /\ raw' = [raw EXCEPT ![p] = fs[ReadmePath].data]
  /\ rsegs' = [rsegs EXCEPT ![p] = segs]
  /\ pc' = [pc EXCEPT ![p] = "line8"]
  /\ UNCHANGED <<fs, segs, matches, idx, start, opened, errline, spans>>

\* line 6 raises: the read fails.
ReadRawError(p) ==
  /\ pc[p] = "line6"
  /\ pc' = [pc EXCEPT ![p] = "failed"]
  /\ errline' = [errline EXCEPT ![p] = "line6"]
  /\ UNCHANGED <<fs, segs, procVars>>

\* A loop that stops one match early.
ForNextSkipLast(ms, n) == IF n + 1 < Len(ms) THEN "line9" ELSE "done"

\* Where the for statement of line 8 goes with i = n of the list ms.
ForNext(ms, n) == IF n < Len(ms) THEN "line9" ELSE "done"

\* A scan that also removes the output files beyond the last match.
ScanAndClean(p) ==
  /\ pc[p] = "line8"
  /\ matches' = [matches EXCEPT ![p] = FindAll(raw[p])]
  /\ spans' = [spans EXCEPT ![p] = FindSpans(raw[p])]
  /\ idx' = [idx EXCEPT ![p] = 0]
  /\ pc' = [pc EXCEPT ![p] = ForNext(FindAll(raw[p]), 0)]
  /\ fs' = [q \in Paths |->
              IF \E i \in OutIdx : i >= Len(FindAll(raw[p])) /\ q = OutPath(i)
              THEN NoFile ELSE fs[q]]
  /\ UNCHANGED <<segs, raw, rsegs, start, opened, errline>>

\* line 8: enumerate(re.findall(...)) is evaluated once, i starts at 0.
Scan(p) ==
  /\ pc[p] = "line8"
  /\ matches' = [matches EXCEPT ![p] = FindAll(raw[p])]
  /\ spans' = [spans EXCEPT ![p] = FindSpans(raw[p])]
  /\ idx' = [idx EXCEPT ![p] = 0]
  /\ pc' = [pc EXCEPT ![p] = ForNext(FindAll(raw[p]), 0)]
  /\ UNCHANGED <<fs, segs, raw, rsegs, start, opened, errline>>

\* line 9: the output file of index i is opened with mode w.
OpenOut(p) ==
  /\ pc[p] = "line9"
  /\ fs' = [fs EXCEPT ![OutPath(idx[p])] = OpenFile(@)]
  /\ opened' = [opened EXCEPT ![p] = @ \cup {idx[p]}]
  /\ pc' = [pc EXCEPT ![p] = "line10"]
  /\ UNCHANGED <<segs, raw, matches, idx, rsegs, start, errline, spans>>

\* A failure that removes what the run has written so far.
OpenOutErrorCleanup(p) ==
  /\ pc[p] = "line9"
  /\ pc' = [pc EXCEPT ![p] = "failed"]
  /\ errline' = [errline EXCEPT ![p] = "line9"]
  /\ fs' = [q \in Paths |->
              IF \E i \in opened[p] : q = OutPath(i) THEN NoFile ELSE fs[q]]
  /\ UNCHANGED <<segs, procVars>>

\* line 9 raises IOError: the file cannot be created.
OpenOutError(p) ==
  /\ pc[p] = "line9"
  /\ pc' = [pc EXCEPT ![p] = "failed"]
  /\ errline' = [errline EXCEPT ![p] = "line9"]
  /\ UNCHANGED <<fs, segs, procVars>>

\* line 10 and the end of the with block: the text is written and the file
\* closed; the for statement takes the next match.
WriteOut(p) ==
  /\ pc[p] = "line10"
  /\ fs' = [fs EXCEPT ![OutPath(idx[p])] = WriteFile(@, Formatted(matches[p][idx[p] + 1]))]
  /\ idx' = [idx EXCEPT ![p] = @ + 1]
  /\ pc' = [pc EXCEPT ![p] = ForNext(matches[p], idx[p] + 1)]
  /\ UNCHANGED <<segs, raw, matches, rsegs, start, opened, errline, spans>>

\* line 10 raises IOError: nothing reaches the file, which stays as opened.
WriteOutError(p) ==
  /\ pc[p] = "line10"
  /\ pc' = [pc EXCEPT ![p] = "failed"]
  /\ errline' = [errline EXCEPT ![p] = "line10"]
  /\ UNCHANGED <<fs, segs, procVars>>

\* README.md is rewritten by its author between the reads of two runs.
EditReadme ==
  /\ fs[ReadmePath].exists
  /\ \E p \in Procs : pc[p] \in {"idle", "line5", "line6"}
  /\ \E p \in Procs : pc[p] \notin {"idle", "line5", "line6", "failed"}
  /\ \E gs \in EditDocs :
       /\ gs # segs
       /\ segs' = gs
       /\ fs' = [fs EXCEPT ![ReadmePath] = File(Flatten(gs))]
  /\ UNCHANGED <<pc, procVars, errline>>

Step(p) ==
  \/ OpenReadme(p)
  \/ OpenReadmeError(p)
  \/ ReadRaw(p)
  \/ ReadRawError(p)
  \/ Scan(p)
  \/ OpenOut(p)
  \/ OpenOutError(p)
  \/ WriteOut(p)
  \/ WriteOutError(p)

\* Runs one after the other.
Next ==
  \/ \E p \in Procs : Launch(p)
  \/ \E p \in Procs : Step(p)
  \/ EditReadme

Spec == Init /\ [][Next]_vars

\* Runs that may overlap.
ConcNext ==
  \/ \E p \in Procs : LaunchConcurrent(p)
  \/ \E p \in Procs : Step(p)
  \/ EditReadme

ConcSpec == ConcInit /\ [][ConcNext]_vars

\* ------------------------------------------------------------ properties
\* No later run has been launched: the files are as run p leaves them.
LastRun(p) == \A q \in Procs : q > p => pc[q] = "idle"

\* Run p has read the document; run p has scanned it.
HasRead(p) ==
  pc[p] \in {"line8", "line9", "line10", "done"} \/ errline[p] \in {"line9", "line10"}

Scanned(p) ==
  pc[p] \in {"line9", "line10", "done"} \/ errline[p] \in {"line9", "line10"}

\* The output directory of a file system.
Dir(f) == [q \in OutPaths \cup {OtherPath} |-> f[q]]

\* The bodies of the tagged blocks of a document, in order of appearance.
IsRust(g) == g.kind = "rust"
Blocks(gs) == SelectSeq(gs, IsRust)
Bodies(gs) == [k \in 1..Len(Blocks(gs)) |-> Blocks(gs)[k].body]

\* Number of tagged blocks among the first j segments.
RustUpTo(gs, j) == Cardinality({ m \in 1..j : gs[m].kind = "rust" })

\* Every block is closed and no tagged block has a backtick in its body.
WellFormed(gs) ==
  \A j \in 1..Len(gs) :
    /\ gs[j].kind \in {"text", "rust", "untagged", "other"}
    /\ gs[j].kind = "rust" => ~HasTick(gs[j].body)

NoTagged(gs) == \A j \in 1..Len(gs) : gs[j].kind \in {"text", "untagged", "other"}

\* Position o of the text lies inside one of the matches sp, after its start.
Covered(sp, o) ==
  \E k \in 1..Len(sp) :
    sp[k].start < o /\ o < sp[k].start + Len(Fence \o Tag) + Len(sp[k].code) + Len(Fence)

\* A well-formed document followed by a tagged fence that is never closed.
TrailingOpen(gs) ==
  /\ Len(gs) >= 1
  /\ gs[Len(gs)].kind = "open"
  /\ ~HasTick(gs[Len(gs)].body)
  /\ WellFormed(SubSeq(gs, 1, Len(gs) - 1))

FirstTick(b) == CHOOSE j \in 1..Len(b) : b[j] = BT /\ \A m \in 1..(j - 1) : b[m] # BT
UpToTick(b) == SubSeq(b, 1, FirstTick(b) - 1)
\* The first backtick of the body starts three backticks in a row.
TickIsFence(b) == LitAt(b \o Fence, FirstTick(b), Fence)

\* What run p writes to the file of index i.
Content(p, i) == Formatted(matches[p][i + 1])

\* C1: a run over a document of k well-formed tagged blocks with backtick-free
\* bodies writes exactly the files 0..k-1, and file i is the one of the i-th
\* block in order of appearance.
C1_FilesMatchBlocks ==
  \A p \in Procs :
    (pc[p] = "done" /\ LastRun(p) /\ WellFormed(rsegs[p])) =>
      LET bs == Bodies(rsegs[p])
      IN  /\ opened[p] = 0..(Len(bs) - 1)
          /\ Len(matches[p]) = Len(bs)
          /\ \A i \in 0..(Len(bs) - 1) :
               /\ matches[p][i + 1] = bs[i + 1]
               /\ fs[OutPath(i)] = File(Formatted(bs[i + 1]))

C1_Witness ==
  \E p \in Procs :
    /\ pc[p] = "done" /\ LastRun(p) /\ WellFormed(rsegs[p])
    /\ Len(Bodies(rsegs[p])) = 2
    /\ Bodies(rsegs[p])[1] # Bodies(rsegs[p])[2]

\* C2: after a successful run, file i holds the preamble immediately followed
\* by the text that stands in the document between the tag of match i and its
\* closing fence: nothing inserted, nothing trimmed, nothing of the old file.
C2_ContentIsPreamblePlusCapture ==
  \A p \in Procs :
    (pc[p] = "done" /\ LastRun(p)) =>
      \A i \in 0..(Len(matches[p]) - 1) :
        LET f == fs[OutPath(i)]
            sp == spans[p][i + 1]
            b == sp.start + Len(OpenFence)
            code == SubSeq(f.data, Len(Preamble) + 1, Len(f.data))
        IN  /\ f.exists
            /\ IsPrefix(Preamble, f.data)
            /\ code = matches[p][i + 1]
            /\ LitAt(raw[p], sp.start, OpenFence)
            /\ code = SubSeq(raw[p], b, b + Len(code) - 1)
            /\ LitAt(raw[p], b + Len(code), Fence)

C2_Witness ==
  \E p \in Procs :
    /\ pc[p] = "done" /\ LastRun(p)
    /\ Len(matches[p]) >= 1
    /\ matches[p][1] = Body1
    /\ start[p][OutPath(0)] = File(OldData)

\* C3: a failure ends the run at once and undoes nothing.  When the document
\* cannot be read no output file is created or changed; when the file of index
\* j cannot be written the run ends with a non-zero status, no file beyond j
\* is touched and the files 0..j-1 keep their complete new content.
C3_FailureAbortsKeepsPartial ==
  \A p \in Procs :
    (pc[p] = "failed" /\ LastRun(p)) =>
      /\ ExitCode(p) # 0
      /\ errline[p] \in {"line5", "line6"} =>
           (opened[p] = {} /\ Dir(fs) = Dir(start[p]))
      /\ errline[p] \in {"line9", "line10"} =>
           /\ opened[p] \subseteq 0..idx[p]
           /\ \A i \in OutIdx :
                /\ i < idx[p] => fs[OutPath(i)] = File(Content(p, i))
                /\ i > idx[p] => fs[OutPath(i)] = start[p][OutPath(i)]

C3_Witness ==
  /\ pc[1] = "failed" /\ errline[1] = "line9"
  /\ idx[1] = 0 /\ Len(matches[1]) = 2
  /\ pc[2] = "failed" /\ errline[2] = "line9"
  /\ idx[2] = 1 /\ start[2][OutPath(1)] = File(OldData)

\* C4: a run that finds k matches changes only the files 0..k-1; it deletes
\* nothing, and the files of index k and above that an earlier run with more
\* matches wrote keep their content.
C4_OnlyMatchedFilesChange ==
  /\ \A p \in Procs :
       (pc[p] # "idle" /\ LastRun(p)) =>
         \A q \in OutPaths \cup {OtherPath} :
           /\ start[p][q].exists => fs[q].exists
           /\ (\A i \in 0..(Len(matches[p]) - 1) : q # OutPath(i)) => fs[q] = start[p][q]
  /\ (pc[1] = "done" /\ pc[2] = "done") =>
       \A i \in Len(matches[2])..(Len(matches[1]) - 1) :
         fs[OutPath(i)] = File(Content(1, i))

C4_Witness ==
  /\ pc[1] = "done" /\ pc[2] = "done"
  /\ Len(matches[1]) = 2
  /\ Len(matches[2]) = 1
  /\ matches[2][1] # matches[1][1]

\* C5: a second run over the same document leaves the output directory as the
\* first run left it.
C5_SecondRunChangesNothing ==
  (pc[1] = "done" /\ pc[2] = "done" /\ raw[1] = raw[2]) => Dir(fs) = Dir(start[2])

C5_Witness ==
  /\ pc[1] = "done" /\ pc[2] = "done" /\ raw[1] = raw[2]
  /\ Len(matches[2]) = 2
  /\ start[1][OutPath(0)] = File(OldData)

\* C6: a run over a document without a tagged block (empty, or with untagged
\* and differently tagged blocks only) writes no file, changes nothing in the
\* output directory and ends successfully.
C6_NoMatchNoFile ==
  \A p \in Procs :
    (HasRead(p) /\ NoTagged(rsegs[p])) =>
      /\ pc[p] \in {"line8", "done"}
      /\ matches[p] = <<>>
      /\ opened[p] = {}
      /\ LastRun(p) => Dir(fs) = Dir(start[p])

C6_Witness ==
  \E p \in Procs :
    /\ pc[p] = "done" /\ ExitCode(p) = 0 /\ LastRun(p)
    /\ NoTagged(rsegs[p])
    /\ \E j \in 1..Len(rsegs[p]) : rsegs[p][j].kind = "untagged"
    /\ \E j \in 1..Len(rsegs[p]) : rsegs[p][j].kind = "other"
    /\ start[p][OutPath(0)] = File(OldData)

\* C7: a tagged fence that is never closed gives no match and no file, and the
\* complete blocks before it are extracted with their usual indices.
C7_UnclosedFenceIgnored ==
  \A p \in Procs :
    (Scanned(p) /\ TrailingOpen(rsegs[p])) =>
      LET bs == Bodies(SubSeq(rsegs[p], 1, Len(rsegs[p]) - 1))
      IN  /\ matches[p] = bs
          /\ opened[p] \subseteq 0..(Len(bs) - 1)
          /\ (pc[p] = "done" /\ LastRun(p)) =>
               /\ opened[p] = 0..(Len(bs) - 1)
               /\ \A i \in OutIdx :
                    fs[OutPath(i)] = IF i < Len(bs) THEN File(Formatted(bs[i + 1]))
                                     ELSE start[p][OutPath(i)]

C7_Witness ==
  \E p \in Procs :
    /\ pc[p] = "done" /\ LastRun(p) /\ TrailingOpen(rsegs[p])
    /\ Len(rsegs[p]) = 2
    /\ rsegs[p][1] = Seg("rust", Body1)

\* C8: two tagged blocks with nothing between them give two matches that do
\* not overlap, with consecutive indices, and two files.
C8_AdjacentBlocksTwoMatches ==
  \A p \in Procs :
    (Scanned(p) /\ WellFormed(rsegs[p])) =>
      \A j \in 1..(Len(rsegs[p]) - 1) :
        (rsegs[p][j].kind = "rust" /\ rsegs[p][j + 1].kind = "rust") =>
          LET k == RustUpTo(rsegs[p], j)
              sp == spans[p]
          IN  /\ Len(matches[p]) >= k + 1
              /\ sp[k].start = Offset(rsegs[p], j)
              /\ sp[k + 1].start = Offset(rsegs[p], j + 1)
              /\ sp[k + 1].start = sp[k].start + Len(OpenFence) + Len(sp[k].code) + Len(Fence)
              /\ matches[p][k] = rsegs[p][j].body
              /\ matches[p][k + 1] = rsegs[p][j + 1].body
              /\ (pc[p] = "done" /\ LastRun(p)) =>
                   /\ fs[OutPath(k - 1)] = File(Formatted(rsegs[p][j].body))
                   /\ fs[OutPath(k)] = File(Formatted(rsegs[p][j + 1].body))

C8_Witness ==
  \E p \in Procs :
    /\ pc[p] = "done" /\ LastRun(p)
    /\ rsegs[p] = <<Seg("rust", Body0), Seg("rust", Body1)>>

\* C9, as stated: no captured text holds a backtick, and every tagged block
\* whose body holds a backtick (and whose opening fence is not inside an
\* earlier match) gives a match whose text is the body up to the first backtick.
C9_AnyTickEndsMatch ==
  \A p \in Procs :
    Scanned(p) =>
      LET sp == spans[p]
      IN  /\ \A k \in 1..Len(matches[p]) : ~HasTick(matches[p][k])
          /\ \A j \in 1..Len(rsegs[p]) :
               (rsegs[p][j].kind = "rust" /\ HasTick(rsegs[p][j].body)) =>
                 LET o == Offset(rsegs[p], j)
                 IN  ~Covered(sp, o) =>
                       \E k \in 1..Len(matches[p]) :
                         /\ sp[k].start = o
                         /\ matches[p][k] = UpToTick(rsegs[p][j].body)

\* C9, amended: no captured text holds a backtick; a tagged block whose opening
\* fence is not inside an earlier match gives a match whose text is the body up
\* to the first backtick when that backtick starts three backticks in a row,
\* and no match starts at its opening fence otherwise.
C9_FenceEndsMatchTickDropsBlock ==
  \A p \in Procs :
    Scanned(p) =>
      LET sp == spans[p]
      IN  /\ \A k \in 1..Len(matches[p]) : ~HasTick(matches[p][k])
          /\ \A j \in 1..Len(rsegs[p]) :
               (rsegs[p][j].kind = "rust" /\ HasTick(rsegs[p][j].body)) =>
                 LET o == Offset(rsegs[p], j)
                     cut == UpToTick(rsegs[p][j].body)
                 IN  ~Covered(sp, o) =>
                       IF TickIsFence(rsegs[p][j].body)
                       THEN \E k \in 1..Len(matches[p]) :
                              /\ sp[k].start = o
                              /\ matches[p][k] = cut
                              /\ (pc[p] = "done" /\ LastRun(p)) =>
                                   fs[OutPath(k - 1)] = File(Formatted(cut))
                       ELSE \A k \in 1..Len(matches[p]) : sp[k].start # o

C9_Witness ==
  \E p \in Procs :
    /\ pc[p] = "done" /\ LastRun(p)
    /\ rsegs[p] = <<Seg("rust", BodyFence), Seg("rust", BodyTick)>>
    /\ matches[p] = << <<NL, "x">> >>

\* C10, as stated: when two overlapping runs have ended, every file either of
\* them wrote holds the complete content that one of them wrote for it.
C10_LastWriterWins ==
  (\A p \in Procs : pc[p] = "done") =>
    \A i \in opened[1] \cup opened[2] :
      \E p \in Procs : i \in opened[p] /\ fs[OutPath(i)] = File(Content(p, i))

\* C10, amended: every such file starts with the complete content that one of
\* the runs wrote for it, and holds more only when the other run wrote a
\* longer content for it, whose bytes beyond that length then remain.
C10_LastWriterPrefix ==
  (\A p \in Procs : pc[p] = "done") =>
    \A i \in opened[1] \cup opened[2] :
      \E p \in Procs :
        /\ i \in opened[p]
        /\ fs[OutPath(i)].exists
        /\ IsPrefix(Content(p, i), fs[OutPath(i)].data)
        /\ fs[OutPath(i)].data # Content(p, i) =>
             \E q \in Procs \ {p} :
               /\ i \in opened[q]
               /\ Len(Content(q, i)) > Len(Content(p, i))
               /\ fs[OutPath(i)].data =
                    Content(p, i) \o SubSeq(Content(q, i), Len(Content(p, i)) + 1, Len(Content(q, i)))

C10_Witness ==
  /\ \A p \in Procs : pc[p] = "done"
  /\ 0 \in opened[1] \cap opened[2]
  /\ \A p \in Procs : fs[OutPath(0)].data # Content(p, 0)

====
